---- MODULE Spec2Model ----
(***************************************************************************)
(* A model of generate_plot.py: the script that loads top20.json, plots    *)
(* one scaled normal density per team on a shared axes, decorates the      *)
(* figure, saves elo_distributions.png and prints a confirmation.          *)
(*                                                                         *)
(* The script is one straight-line run.  Its position is pc:               *)
(*   "load"  lines 10-14   open + json.load + plt.subplots                 *)
(*   "plot"  lines 48-81   one loop iteration per step, index i            *)
(*   "save"  line 108      plt.savefig (lines 84-107 ran on the way here)  *)
(*   "print" line 110      print("Saved elo_distributions.png")            *)
(*   "close" line 112      plt.close()                                     *)
(*   "done" / "failed"     normal end / an uncaught exception (err)        *)
(*                                                                         *)
(* Real numbers are fixed point: a rendered curve value v stands for       *)
(* v / 100000, a line width or opacity w stands for w / 10.                *)
(***************************************************************************)
EXTENDS Integers, Sequences, FiniteSets, TLC

VARIABLES
    fileState,   \* top20.json on disk: "missing", "malformed" or "ok"
    fileTeams,   \* what top20.json parses to when fileState = "ok"
    imageFile,   \* elo_distributions.png on disk: "prior" (whatever was there before the
                 \* run, possibly nothing), "partial" (a write that broke off), "new"
    imageWrites, \* number of completed writes of the image file in this run
    stdout,      \* lines printed so far
    pc,          \* position of the script
    err,         \* the uncaught exception that ended the run, or "none"
    teams,       \* the loaded list (line 11)
    i,           \* loop index of enumerate(teams) (line 48)
    lines,       \* the Line2D artists added by ax.plot, in draw order
    fills,       \* the polygons added by ax.fill_between, in draw order
    legend,      \* legend entries, in order, once ax.legend ran
    xlim,        \* x-axis view limits once set (line 98)
    ylim,        \* y-axis view limits once set (line 99): <<lo, hi>>, hi in 1/400 of a curve unit
    figOpen      \* whether the figure exists (lines 14 .. 112)

vars == <<fileState, fileTeams, imageFile, imageWrites, stdout, pc, err, teams,
          i, lines, fills, legend, xlim, ylim, figOpen>>

-----------------------------------------------------------------------------
(* Bounds of the model *)

MaxTeams == 41      \* longest list of the style family
MaxShort == 2       \* longest list of the mixed-record family
MaxPieces == 3      \* most fragments a generated team name is built from

-----------------------------------------------------------------------------
(* Module-level constants of the script *)

colors ==
    << "#1f77b4", "#ff7f0e", "#2ca02c", "#d62728", "#9467bd",
       "#8c564b", "#e377c2", "#7f7f7f", "#bcbd22", "#17becf",
       "#aec7e8", "#ffbb78", "#98df8a", "#ff9896", "#c5b0d5",
       "#c49c94", "#f7b6d2", "#c7c7c7", "#dbdb8d", "#9edae5" >>

line_styles == << "-", "--", "-.", ":" >>

\* The suffixes removed by the chained str.replace calls, in call order.
Suffixes ==
    << " Crimson Tide", " Volunteers", " Blue Devils", " Spartans", " Cougars",
       " Wildcats", " Red Storm", " Tigers", " Terrapins", " Owls", " Wolverines",
       " Aggies", " Razorbacks", " Rebels", " Red Raiders", " Gators" >>

XLo == 1200
XHi == 2600
NumSamples == 500
GroupSize == 10
TopThick == 6
TopFill == 3
NaN == -1           \* the value numpy gives where the density is undefined

SavedMessage == "Saved elo_distributions.png"

-----------------------------------------------------------------------------
(* Strings: Len, \o and SubSeq act on strings as on sequences of characters *)

\* whether t occurs in s as a substring
Contains(s, t) ==
    \E k \in 1..(Len(s) - Len(t) + 1) : SubSeq(s, k, k + Len(t) - 1) = t

\* s.replace(t, ''): the occurrences of t found scanning left to right, each
\* search resuming right after the previous occurrence, are removed.
\* (variant: only the first occurrence is removed, as s.replace(t, '', 1))
RECURSIVE ReplaceFirst(_, _)
ReplaceFirst(s, t) ==
    IF Len(s) < Len(t) THEN s
    ELSE IF SubSeq(s, 1, Len(t)) = t
         THEN SubSeq(s, Len(t) + 1, Len(s))
         ELSE SubSeq(s, 1, 1) \o ReplaceFirst(SubSeq(s, 2, Len(s)), t)

RECURSIVE Replace(_, _)
Replace(s, t) ==
    IF Len(s) < Len(t) THEN s
    ELSE IF SubSeq(s, 1, Len(t)) = t
         THEN Replace(SubSeq(s, Len(t) + 1, Len(s)), t)
         ELSE SubSeq(s, 1, 1) \o Replace(SubSeq(s, 2, Len(s)), t)

\* the chain of replace calls, left to right: suffixes k..16 applied to s
RECURSIVE StripFrom(_, _)
StripFrom(s, k) ==
    IF k > Len(Suffixes) THEN s
    ELSE StripFrom(Replace(s, Suffixes[k]), k + 1)

\* name after lines 67-72
ShortName(team_name) == StripFrom(team_name, 1)

\* str() of an integer, as the f-string formats team['rank']
RECURSIVE Digits(_)
Digits(n) ==
    IF n < 10 THEN SubSeq("0123456789", n + 1, n + 1)
    ELSE Digits(n \div 10) \o SubSeq("0123456789", (n % 10) + 1, (n % 10) + 1)

FormatInt(n) == IF n < 0 THEN "-" \o Digits(0 - n) ELSE Digits(n)

\* f"{team['rank']}. {name}"
Label(rank, name) == FormatInt(rank) \o ". " \o name

-----------------------------------------------------------------------------
(* Style by position (lines 59-64, 80) *)

Color(idx) == colors[(idx % Len(colors)) + 1]

\* (variant: the index is reduced modulo the group size instead of divided by it)
LineStyleByRemainder(idx) == line_styles[((idx % GroupSize) % Len(line_styles)) + 1]

LineStyle(idx) == line_styles[((idx \div GroupSize) % Len(line_styles)) + 1]

LineWidth(idx) == IF idx < TopThick THEN 25 ELSE 18

Alpha(idx) == IF idx < TopThick THEN 9 ELSE 7

\* (variant: the threshold is inclusive)
FilledInclusive(idx) == idx <= TopFill

Filled(idx) == idx < TopFill

-----------------------------------------------------------------------------
(* The curve (lines 45, 53, 56) *)

Abs(n) == IF n < 0 THEN 0 - n ELSE n

\* x[j] of np.linspace(1200, 2600, 500), in units of 1/499
X499(j) == XLo * (NumSamples - 1) + j * (XHi - XLo)

\* (variant: the distance is taken from the left end of the domain, not from mean)
YqFromLeft(x, mean, std) ==
    (Abs(x - (NumSamples - 1) * XLo) * 100) \div ((NumSamples - 1) * std)

\* |x - mean| / std in hundredths, x and 499 * mean in units of 1/499
Yq(x, mean, std) ==
    (Abs(x - (NumSamples - 1) * mean) * 100) \div ((NumSamples - 1) * std)

\* v * v for v in units of 1/32768
Sq(v) == (v * v) \div 32768

\* exp(-y*y/2) in units of 1/32768 for y = yq/100, as (1 - z/64)^64 with
\* z = y*y/2, so that z/64 = yq*yq/1280000 = (yq*yq*16/625)/32768;
\* beyond 6 standard deviations the result is below the resolution: 0.
ExpNeg(yq) ==
    IF yq >= 600 THEN 0
    ELSE Sq(Sq(Sq(Sq(Sq(Sq(32768 - (yq * yq * 16) \div 625))))))

\* (variant: only std = 0 gives nan; a negative std is used by its magnitude)
NormPdfZeroOnly(x, mean, std) ==
    IF std = 0 THEN NaN
    ELSE (ExpNeg(Yq(x, mean, Abs(std))) * 49875) \div (4096 * Abs(std))

\* stats.norm.pdf(x, mean, std) in millionths: exp(-y*y/2) / sqrt(2 pi) / std
\* with 1 / sqrt(2 pi) = 0.399 (and 0.399 * 1000000 / 32768 = 49875 / 4096),
\* and nan (no exception) where std <= 0
NormPdf(x, mean, std) ==
    IF std <= 0 THEN NaN
    ELSE (ExpNeg(Yq(x, mean, std)) * 49875) \div (4096 * std)

\* pdf * std * 2.5, in units of 1/100000
PdfScaled(x, mean, std) ==
    LET pdf == NormPdf(x, mean, std)
    IN  IF pdf = NaN THEN NaN ELSE (pdf * std * 25) \div 100

Samples == 0..(NumSamples - 1)

\* pdf_scaled[j]
Curve(j, mean, std) == PdfScaled(X499(j), mean, std)

\* np.max / np.min of ys[a..b], by halves
RECURSIVE MaxIn(_, _, _)
MaxIn(ys, a, b) ==
    IF a = b THEN ys[a]
    ELSE LET mid == (a + b) \div 2
             l   == MaxIn(ys, a, mid)
             r   == MaxIn(ys, mid + 1, b)
         IN  IF r > l THEN r ELSE l

RECURSIVE MinIn(_, _, _)
MinIn(ys, a, b) ==
    IF a = b THEN ys[a]
    ELSE LET mid == (a + b) \div 2
             l   == MinIn(ys, a, mid)
             r   == MinIn(ys, mid + 1, b)
         IN  IF r < l THEN r ELSE l

\* pdf_scaled as plotted: its extent [ymin, ymax] is what the axes keep of it
\* for autoscaling; a nan curve has no extent.
\* (Every sample of a curve is nan or none is: nan comes from std alone.)
CurveExtent(mean, std) ==
    IF Curve(0, mean, std) = NaN THEN [ymin |-> NaN, ymax |-> NaN]
    ELSE LET ys == [j \in Samples |-> Curve(j, mean, std)]
         IN  [ymin |-> MinIn(ys, 0, NumSamples - 1), ymax |-> MaxIn(ys, 0, NumSamples - 1)]

-----------------------------------------------------------------------------
(* The axes' automatic y limit, read by ax.get_ylim()[1] on line 99 *)

Min2(a, b) == IF a < b THEN a ELSE b
Max2(a, b) == IF a > b THEN a ELSE b

RECURSIVE DataMax(_, _)
DataMax(ls, k) ==
    IF k = 0 THEN NaN
    ELSE LET m == DataMax(ls, k - 1)
         IN  IF ls[k].ymax = NaN THEN m
             ELSE IF m = NaN THEN ls[k].ymax ELSE Max2(m, ls[k].ymax)

RECURSIVE DataMin(_, _)
DataMin(ls, k) ==
    IF k = 0 THEN NaN
    ELSE LET m == DataMin(ls, k - 1)
         IN  IF ls[k].ymin = NaN THEN m
             ELSE IF m = NaN THEN ls[k].ymin ELSE Min2(m, ls[k].ymin)

\* (AutoTopNoMargin is the variant that adds no margin around the data.)
\* Upper y view limit after autoscaling, in units of 1/200 of a curve unit.
\*   no artist                : the default view, (0, 1)
\*   artists without finite y : (-0.05, 0.05) widened by the 5% margin
\*   data extent [lo, hi]     : hi + 0.05 * (hi - lo); fill_between's baseline 0
\*                              is part of the extent; an extent of zero height
\*                              is first widened by 5% of |hi| (0.05 around 0)
AutoTopNoMargin(ls, fs) ==
    IF Len(ls) = 0 THEN 200 * 100000
    ELSE LET hi == DataMax(ls, Len(ls))
         IN  IF hi = NaN \/ hi = 0 THEN 200 * 5500 ELSE 200 * hi

AutoTop(ls, fs) ==
    IF Len(ls) = 0 THEN 200 * 100000
    ELSE LET hi  == DataMax(ls, Len(ls))
             lmn == DataMin(ls, Len(ls))
             fmn == DataMin(fs, Len(fs))
             lo  == IF fmn = NaN THEN lmn ELSE Min2(lmn, 0)
         IN  IF hi = NaN THEN 200 * 5500
             ELSE IF hi = lo
                  THEN (IF hi = 0 THEN 200 * 5500 ELSE 211 * hi)
                  ELSE 210 * hi - 10 * lo

-----------------------------------------------------------------------------
(* Inputs *)

Team(rank, name, mean, std) ==
    [rank |-> rank, team_name |-> name, mean_elo |-> mean, std_dev |-> std]

\* a record that lacks field f
Without(team, f) == [k \in (DOMAIN team) \ {f} |-> team[k]]

Fields == {"rank", "team_name", "mean_elo", "std_dev"}

\* n well-formed records, ranked 1..n in order
Ranked(n) == [k \in 1..n |-> Team(k, "Team", 1800 + k, 80)]

\* lists of every length up to MaxTeams
StyleInputs == { Ranked(n) : n \in 0..MaxTeams }

\* team names made of up to MaxPieces fragments: whole suffixes, and the pieces
\* that form a suffix when something between them is removed
Fragments == << "Owls", " Crimson", " Tide", " Gators", " Ga", "tors" >>

RECURSIVE Join(_)
Join(ps) == IF Len(ps) = 0 THEN "" ELSE Fragments[Head(ps)] \o Join(Tail(ps))

Names ==
    { Join(ps) : ps \in UNION { [1..n -> 1..Len(Fragments)] : n \in 0..MaxPieces } }

NameInputs == { << Team(1, nm, 1850, 80) >> : nm \in Names }

\* records of every kind, in lists of up to MaxShort
Kinds ==
    { Team(1, "Duke Blue Devils", 1850, 80),
      Team(2, "Houston Cougars", 1203, 25),
      Team(3, "Zero Spread", 1900, 0),
      Team(4, "Negative Spread", 1900, -5) }
    \cup { Without(Team(5, "Purdue Boilermakers", 2000, 60), f) : f \in Fields }

ShortInputs == UNION { [1..n -> Kinds] : n \in 0..MaxShort }

\* one record per mean and spread
Means == { 1100, 1200, 1203, 1850, 2600, 2750, 9000 }
Spreads == { 1, 25, 80, 300, 5000 }

CurveInputs == { << Team(1, "Team", m, sd) >> : m \in Means, sd \in Spreads }

Inputs == StyleInputs \cup NameInputs \cup ShortInputs \cup CurveInputs

-----------------------------------------------------------------------------
(* The run *)

Init ==
    /\ fileState \in {"missing", "unreadable", "malformed", "ok"}
    /\ fileTeams \in ( IF fileState = "ok" THEN Inputs ELSE { << >> } )
    /\ imageFile = "prior"
    /\ imageWrites = 0
    /\ stdout = << >>
    /\ pc = "load"
    /\ err = "none"
    /\ teams = << >>
    /\ i = 0
    /\ lines = << >>
    /\ fills = << >>
    /\ legend = << >>
    /\ xlim = << >>
    /\ ylim = << >>
    /\ figOpen = FALSE

\* an uncaught exception: the interpreter prints the traceback and exits
Raise(e) ==
    /\ pc' = "failed"
    /\ err' = e

\* lines 10-14
Load ==
    /\ pc = "load"
    /\ \/ /\ fileState = "missing"
          /\ Raise("FileNotFoundError")
          /\ UNCHANGED <<teams, figOpen>>
       \/ /\ fileState = "unreadable"
          /\ Raise("PermissionError")
          /\ UNCHANGED <<teams, figOpen>>
       \/ /\ fileState = "malformed"
          /\ Raise("JSONDecodeError")
          /\ UNCHANGED <<teams, figOpen>>
       \/ /\ fileState = "ok"
          /\ teams' = fileTeams
          /\ figOpen' = TRUE
          /\ pc' = "plot"
          /\ UNCHANGED err
    /\ UNCHANGED <<fileState, fileTeams, imageFile, imageWrites, stdout, i,
                   lines, fills, legend, xlim, ylim>>

\* (variant: the label's number is the position in the list, not the rank field)
PlottedLinePositionRank(idx, team) ==
    LET ext == CurveExtent(team.mean_elo, team.std_dev)
    IN  [ color     |-> Color(idx),
          linestyle |-> LineStyle(idx),
          linewidth |-> LineWidth(idx),
          alpha     |-> Alpha(idx),
          label     |-> Label(idx + 1, ShortName(team.team_name)),
          ymin      |-> ext.ymin,
          ymax      |-> ext.ymax ]

\* the artist ax.plot adds for the record at index idx (lines 49-77)
PlottedLine(idx, team) ==
    LET ext == CurveExtent(team.mean_elo, team.std_dev)
    IN  [ color     |-> Color(idx),
          linestyle |-> LineStyle(idx),
          linewidth |-> LineWidth(idx),
          alpha     |-> Alpha(idx),
          label     |-> Label(team.rank, ShortName(team.team_name)),
          ymin      |-> ext.ymin,
          ymax      |-> ext.ymax ]

\* the polygon ax.fill_between adds under that line (line 81)
FilledArea(idx, line) ==
    [ line |-> idx, color |-> Color(idx), alpha |-> 1,
      ymin |-> line.ymin, ymax |-> line.ymax ]

\* (variant: a record that lacks a field is skipped instead of ending the run)
PlotTeamSkipping ==
    /\ pc = "plot"
    /\ i < Len(teams)
    /\ LET team == teams[i + 1]
       IN  IF Fields \subseteq DOMAIN team
           THEN LET line == PlottedLine(i, team)
                IN  /\ lines' = Append(lines, line)
                    /\ fills' = IF Filled(i) THEN Append(fills, FilledArea(i, line))
                                             ELSE fills
           ELSE UNCHANGED <<lines, fills>>
    /\ i' = i + 1
    /\ UNCHANGED <<fileState, fileTeams, imageFile, imageWrites, stdout, teams,
                   legend, xlim, ylim, figOpen, pc, err>>

\* lines 48-81, one iteration
PlotTeam ==
    /\ pc = "plot"
    /\ i < Len(teams)
    /\ LET team == teams[i + 1]
       IN  IF Fields \subseteq DOMAIN team
           THEN LET line == PlottedLine(i, team)
                IN  /\ lines' = Append(lines, line)
                    /\ fills' = IF Filled(i) THEN Append(fills, FilledArea(i, line))
                                             ELSE fills
                    /\ i' = i + 1
                    /\ UNCHANGED <<pc, err>>
           ELSE /\ Raise("KeyError")
                /\ UNCHANGED <<lines, fills, i>>
    /\ UNCHANGED <<fileState, fileTeams, imageFile, imageWrites, stdout, teams,
                   legend, xlim, ylim, figOpen>>

\* (variant: scaling the y axis fails when no curve was drawn)
DecorateNeedsCurve ==
    /\ pc = "plot"
    /\ i = Len(teams)
    /\ IF Len(lines) = 0
       THEN /\ Raise("ValueError")
            /\ UNCHANGED <<legend, xlim, ylim>>
       ELSE /\ legend' = [k \in 1..Len(lines) |-> lines[k].label]
            /\ xlim' = <<XLo, XHi>>
            /\ ylim' = <<0, AutoTop(lines, fills) * 21>>
            /\ pc' = "save"
            /\ UNCHANGED err
    /\ UNCHANGED <<fileState, fileTeams, imageFile, imageWrites, stdout,
                   teams, i, lines, fills, figOpen>>

\* lines 84-107, once the loop is exhausted
Decorate ==
    /\ pc = "plot"
    /\ i = Len(teams)
    /\ legend' = [k \in 1..Len(lines) |-> lines[k].label]
    /\ xlim' = <<XLo, XHi>>
    /\ ylim' = <<0, AutoTop(lines, fills) * 21>>
    /\ pc' = "save"
    /\ UNCHANGED <<fileState, fileTeams, imageFile, imageWrites, stdout, err,
                   teams, i, lines, fills, figOpen>>

\* (variant: a failed save is swallowed and the script goes on to print)
SaveFigSwallowing ==
    /\ pc = "save"
    /\ \/ /\ imageFile' = "new"
          /\ imageWrites' = imageWrites + 1
       \/ UNCHANGED <<imageFile, imageWrites>>
       \/ /\ imageFile' = "partial"
          /\ UNCHANGED imageWrites
    /\ pc' = "print"
    /\ UNCHANGED <<fileState, fileTeams, stdout, teams, i, lines, fills, legend,
                   xlim, ylim, figOpen, err>>

\* line 108: the file is opened for writing and the image encoded into it.  It
\* succeeds, or fails before anything is written (the path cannot be opened),
\* or fails part way (the device fills up).
SaveFig ==
    /\ pc = "save"
    /\ \/ /\ imageFile' = "new"
          /\ imageWrites' = imageWrites + 1
          /\ pc' = "print"
          /\ UNCHANGED err
       \/ /\ Raise("PermissionError")
          /\ UNCHANGED <<imageFile, imageWrites>>
       \/ /\ Raise("OSError")
          /\ imageFile' = "partial"
          /\ UNCHANGED imageWrites
    /\ UNCHANGED <<fileState, fileTeams, stdout, teams, i, lines, fills, legend,
                   xlim, ylim, figOpen>>

\* line 110
PrintSaved ==
    /\ pc = "print"
    /\ stdout' = Append(stdout, SavedMessage)
    /\ pc' = "close"
    /\ UNCHANGED <<fileState, fileTeams, imageFile, imageWrites, err, teams, i,
                   lines, fills, legend, xlim, ylim, figOpen>>

\* line 112
Close ==
    /\ pc = "close"
    /\ figOpen' = FALSE
    /\ pc' = "done"
    /\ UNCHANGED <<fileState, fileTeams, imageFile, imageWrites, stdout, err,
                   teams, i, lines, fills, legend, xlim, ylim>>

Next == Load \/ PlotTeam \/ Decorate \/ SaveFig \/ PrintSaved \/ Close

Spec == Init /\ [][Next]_vars

-----------------------------------------------------------------------------
(* Vocabulary of the properties *)

\* the script got past json.load
Loaded == pc # "load" /\ fileState = "ok"

\* the decorations (lines 84-107) were applied: the run reached the save step
Decorated == pc \in {"save", "print", "close", "done"} \/ (pc = "failed" /\ ylim # << >>)

\* the run ended in the save step's own failure
SaveFailed == pc = "failed" /\ err \in {"PermissionError", "OSError"} /\ ylim # << >>

Running == pc \notin {"done", "failed"}

HasAllFields(team) == Fields \subseteq DOMAIN team

-----------------------------------------------------------------------------
(* C1 *)

EmptyInput == Loaded /\ fileTeams = << >>

\* C1 as stated: when the input parses to an empty sequence the run fails
\* before rendering; the image is not written and no confirmation is printed.
C1_EmptyInputFails ==
    EmptyInput =>
        /\ imageFile = "prior"
        /\ stdout = << >>
        /\ pc \notin {"save", "print", "close", "done"}

\* C1, amended: an empty input does not end the run.  Nothing is drawn, the
\* decorations are applied with the default y view (0, 1) stretched to
\* (0, 1.05), the save step is reached, and unless the save itself fails the
\* image is written and the confirmation printed.
C1_EmptyInputRenders ==
    EmptyInput =>
        /\ lines = << >> /\ fills = << >>
        /\ Running => ENABLED Next
        /\ pc = "failed" => SaveFailed
        /\ Decorated => /\ legend = << >>
                        /\ xlim = <<XLo, XHi>>
                        /\ ylim = <<0, 4000 * 105000>>
        /\ pc \in {"print", "close", "done"} => imageFile = "new" /\ imageWrites = 1
        /\ pc \in {"close", "done"} => stdout = <<SavedMessage>>

C1_Witness ==
    /\ EmptyInput
    /\ pc = "done"
    /\ imageFile = "new"
    /\ stdout = <<SavedMessage>>

-----------------------------------------------------------------------------
(* C2 *)

NonPositiveSpread(team) == "std_dev" \in DOMAIN team /\ team.std_dev <= 0

HasNonPositiveSpread ==
    Loaded /\ \E k \in 1..Len(teams) : NonPositiveSpread(teams[k])

\* C2 as stated: a record with std_dev <= 0 makes the run fail; the save step
\* is never reached, no image is written and no confirmation is printed.
C2_NonPositiveSpreadFails ==
    HasNonPositiveSpread =>
        /\ pc \notin {"save", "print", "close", "done"}
        /\ imageFile = "prior"
        /\ stdout = << >>

\* C2, amended: a record with std_dev <= 0 does not end the run.  Its curve
\* is nan at every sample (it is plotted, with no extent), the loop goes on,
\* and when every record has its fields the run reaches the save step, where
\* the image is written and the confirmation printed unless the save itself
\* fails.
C2_NonPositiveSpreadPlotsNan ==
    /\ \A k \in 1..Len(lines) :
         NonPositiveSpread(teams[k]) =>
             lines[k].ymin = NaN /\ lines[k].ymax = NaN
    /\ \A k \in 1..Len(lines) :
         ~NonPositiveSpread(teams[k]) =>
             lines[k].ymin # NaN /\ lines[k].ymax # NaN
    /\ (HasNonPositiveSpread /\ \A k \in 1..Len(teams) : HasAllFields(teams[k])) =>
         /\ pc = "failed" => SaveFailed
         /\ Decorated => Len(lines) = Len(teams)
         /\ pc \in {"print", "close", "done"} => imageFile = "new"
         /\ pc \in {"close", "done"} => stdout = <<SavedMessage>>

C2_Witness ==
    /\ HasNonPositiveSpread
    /\ \E k \in 1..Len(lines) : teams[k].std_dev < 0 /\ lines[k].ymax = NaN
    /\ pc = "done"
    /\ imageFile = "new"
    /\ stdout = <<SavedMessage>>

-----------------------------------------------------------------------------
(* C3 *)

Leading(line) == line.linewidth = 25 /\ line.alpha = 9
Ordinary(line) == line.linewidth = 18 /\ line.alpha = 7

\* C3: of the N curves of a run that rendered, exactly min(N, 3) are shaded
\* and exactly min(N, 6) are leading (width 2.5, opacity 0.9); they are the
\* first 3 and the first 6; the others have width 1.8, opacity 0.7, no shade.
C3_ShadedAndLeadingCounts ==
    (Decorated /\ ~SaveFailed) =>
        LET N == Len(teams)
            shaded == { fills[k].line : k \in 1..Len(fills) }
        IN  /\ Len(lines) = N
            /\ Len(fills) = Min2(N, 3)
            /\ Cardinality(shaded) = Min2(N, 3)
            /\ shaded = { idx \in 0..(N - 1) : idx < 3 }
            /\ Cardinality({ k \in 1..N : Leading(lines[k]) }) = Min2(N, 6)
            /\ \A k \in 1..N : IF k <= 6 THEN Leading(lines[k]) ELSE Ordinary(lines[k])
            /\ \A k \in 1..Len(fills) : fills[k].alpha = 1
                                        /\ fills[k].color = lines[fills[k].line + 1].color

C3_Witness ==
    /\ pc = "done"
    /\ Len(lines) = 7
    /\ Len(fills) = 3
    /\ Leading(lines[6]) /\ Ordinary(lines[7])

-----------------------------------------------------------------------------
(* C4 *)

NoSuffixIn(s) == \A k \in 1..Len(Suffixes) : ~Contains(s, Suffixes[k])

\* s is a concatenation of whole suffix tokens
RECURSIVE IsSuffixRun(_)
IsSuffixRun(s) ==
    \/ Len(s) = 0
    \/ \E k \in 1..Len(Suffixes) :
         /\ Len(Suffixes[k]) <= Len(s)
         /\ SubSeq(s, 1, Len(Suffixes[k])) = Suffixes[k]
         /\ IsSuffixRun(SubSeq(s, Len(Suffixes[k]) + 1, Len(s)))

\* the name part of a label: what follows "{rank}. "
NameOf(label, rank) == SubSeq(label, Len(FormatInt(rank)) + 3, Len(label))

\* C4 as stated: what the stripping leaves in the legend label contains none
\* of the 16 suffix tokens, however the tokens are nested or interleaved in the
\* team name.
C4_LabelHasNoSuffix ==
    \A k \in 1..Len(lines) : NoSuffixIn(NameOf(lines[k].label, teams[k].rank))

\* C4, amended: for a team name that is a base containing none of the tokens,
\* followed by zero or more whole tokens, the stripping yields exactly the
\* base, so the shortened name contains no token.
C4_BasePlusSuffixesGivesBase ==
    \A k \in 1..Len(lines) :
        LET nm == teams[k].team_name
        IN  \A b \in 0..Len(nm) :
                LET base == SubSeq(nm, 1, b)
                IN  (NoSuffixIn(base) /\ IsSuffixRun(SubSeq(nm, b + 1, Len(nm)))) =>
                        /\ NameOf(lines[k].label, teams[k].rank) = base
                        /\ NoSuffixIn(NameOf(lines[k].label, teams[k].rank))

\* a name with several tokens after its base, all removed
C4_Witness ==
    \E k \in 1..Len(lines) :
        /\ teams[k].team_name = "Owls Gators Gators"
        /\ lines[k].label = "1. Owls"

-----------------------------------------------------------------------------
(* C5 *)

\* C5: color(i) = palette[i mod 20], with 20 the smallest period;
\* style(i) = styles[(i div 10) mod 4]: one style per block of 10 positions,
\* different from the next block's, with 40 the smallest period.
C5_StylePeriods ==
    LET N == Len(lines)
        col(k) == lines[k].color
        sty(k) == lines[k].linestyle
    IN  /\ \A k \in 1..N : col(k) = colors[((k - 1) % 20) + 1]
        /\ \A k \in 1..N : sty(k) = line_styles[(((k - 1) \div 10) % 4) + 1]
        /\ \A j, k \in 1..N : k = j + 20 => col(j) = col(k)
        /\ N > 20 => \A p \in 1..19 : \E j \in 1..(N - p) : col(j) # col(j + p)
        /\ \A j, k \in 1..N :
             /\ (j - 1) \div 10 = (k - 1) \div 10 => sty(j) = sty(k)
             /\ (j - 1) \div 10 + 1 = (k - 1) \div 10 => sty(j) # sty(k)
             /\ k = j + 40 => sty(j) = sty(k)
        /\ N > 40 => \A p \in 1..39 : \E j \in 1..(N - p) : sty(j) # sty(j + p)

C5_Witness ==
    /\ pc = "done"
    /\ Len(lines) >= 41
    /\ lines[1].color = lines[21].color
    /\ lines[1].linestyle = lines[41].linestyle
    /\ lines[10].linestyle # lines[11].linestyle

-----------------------------------------------------------------------------
(* C6 *)

\* the position (from 1) of the first record that lacks a required field, or 0
FirstIncomplete ==
    IF \E k \in 1..Len(teams) : ~HasAllFields(teams[k])
    THEN CHOOSE k \in 1..Len(teams) :
            /\ ~HasAllFields(teams[k])
            /\ \A j \in 1..(k - 1) : HasAllFields(teams[j])
    ELSE 0

NoOutput == imageFile = "prior" /\ imageWrites = 0 /\ stdout = << >>

\* C6: a missing or unreadable input file, a parse failure, or a record at
\* any position that lacks a required field ends the run at that point; the
\* image file is left as it was and no confirmation is printed.
C6_InputErrorsAreTerminal ==
    /\ (fileState # "ok" /\ pc # "load") =>
          /\ pc = "failed"
          /\ err = CASE fileState = "missing"    -> "FileNotFoundError"
                     [] fileState = "unreadable" -> "PermissionError"
                     [] fileState = "malformed"  -> "JSONDecodeError"
          /\ NoOutput
          /\ lines = << >> /\ ~figOpen
    /\ (Loaded /\ FirstIncomplete > 0) =>
          /\ pc \in {"plot", "failed"}
          /\ NoOutput
          /\ i < FirstIncomplete
          /\ Len(lines) = i
          /\ pc = "failed" => err = "KeyError" /\ i = FirstIncomplete - 1
    /\ (pc = "failed" /\ err \in {"FileNotFoundError", "JSONDecodeError", "KeyError"}) =>
          NoOutput
    /\ pc = "failed" => ~ENABLED Next

\* the record that lacks a field is not the first one
C6_Witness ==
    /\ pc = "failed"
    /\ err = "KeyError"
    /\ FirstIncomplete = 2
    /\ Len(lines) = 1
    /\ NoOutput

-----------------------------------------------------------------------------
(* C7 *)

\* C7: the image is written once, after every record was drawn and the
\* decorations applied; the confirmation is printed only after the write; a run
\* that printed has produced the image; a run whose save failed printed
\* nothing.
C7_SaveThenPrint ==
    /\ imageWrites <= 1
    /\ (imageWrites = 1) <=> (imageFile = "new")
    /\ imageFile # "prior" =>
          /\ Decorated
          /\ i = Len(teams) /\ Len(lines) = Len(teams)
          /\ Len(legend) = Len(lines)
          /\ xlim # << >> /\ ylim # << >>
    /\ stdout \in { << >>, <<SavedMessage>> }
    /\ stdout # << >> => imageWrites = 1 /\ imageFile = "new"
    /\ pc = "failed" => stdout = << >> /\ imageWrites = 0
    /\ pc \in {"print", "close", "done"} => imageWrites = 1
    /\ pc = "print" => stdout = << >>
    /\ pc \in {"close", "done"} => stdout = <<SavedMessage>>

C7_Witness ==
    /\ pc = "done"
    /\ Len(lines) >= 2
    /\ imageWrites = 1
    /\ stdout = <<SavedMessage>>

-----------------------------------------------------------------------------
(* C8 *)

Clamp(j) == IF j < 0 THEN 0 ELSE IF j > NumSamples - 1 THEN NumSamples - 1 ELSE j

\* distance of sample j from mean, in units of 1/499
Dist(j, mean) == Abs(X499(j) - (NumSamples - 1) * mean)

\* index of a sample point closest to mean
Closest(mean) ==
    LET below == Clamp(((mean - XLo) * (NumSamples - 1)) \div (XHi - XLo))
        above == Clamp(below + 1)
    IN  IF Dist(above, mean) < Dist(below, mean) THEN above ELSE below

\* C8: for the curve of a record with std_dev > 0, no sample exceeds the value
\* the curve has at the mean, and the largest sample is the one at the sample
\* point closest to the mean.  (Stated of the curve just plotted; every curve
\* is the curve just plotted in the state after its iteration.)
C8_PeakAtMean ==
    (pc = "plot" /\ Len(lines) > 0 /\ teams[Len(lines)].std_dev > 0) =>
        LET mean == teams[Len(lines)].mean_elo
            std  == teams[Len(lines)].std_dev
            top  == PdfScaled((NumSamples - 1) * mean, mean, std)
            c    == Closest(mean)
        IN  /\ \A j \in Samples : Dist(c, mean) <= Dist(j, mean)
            /\ \A j \in Samples : Curve(j, mean, std) <= top
            /\ \A j \in Samples : Curve(j, mean, std) <= Curve(c, mean, std)
            /\ lines[Len(lines)].ymax = Curve(c, mean, std)

\* a peak strictly inside the domain, off the sampling grid, above the tails
C8_Witness ==
    /\ pc = "plot"
    /\ Len(lines) = 1
    /\ teams[1].mean_elo = 1203 /\ teams[1].std_dev = 25
    /\ Closest(1203) = 1
    /\ lines[1].ymax = Curve(1, 1203, 25)
    /\ lines[1].ymax > Curve(0, 1203, 25)
    /\ Curve(0, 1203, 25) > Curve(NumSamples - 1, 1203, 25)

-----------------------------------------------------------------------------
(* C9 *)

Ranks == [k \in 1..Len(lines) |-> teams[k].rank]

\* C9 as stated: of any two records the one with the smaller rank is plotted,
\* and listed in the legend, before the other.
C9_DrawnInRankOrder ==
    \A j, k \in 1..Len(lines) : Ranks[j] < Ranks[k] => j < k

\* C9, amended: curves are drawn, and listed in the legend, in the order of
\* the input sequence: the record at position p gives the p-th curve and the
\* p-th legend entry, whatever its rank; its label is "{rank}. {name}" with
\* that record's rank and its shortened name.
C9_DrawnInInputOrder ==
    /\ Len(lines) <= Len(teams)
    /\ pc = "plot" => Len(lines) = i
    /\ \A k \in 1..Len(lines) :
          /\ lines[k].label =
                FormatInt(teams[k].rank) \o ". " \o ShortName(teams[k].team_name)
          /\ lines[k].color = Color(k - 1)
    /\ (Decorated /\ ~SaveFailed) =>
          /\ Len(legend) = Len(teams)
          /\ \A k \in 1..Len(legend) :
                legend[k] = FormatInt(teams[k].rank) \o ". " \o ShortName(teams[k].team_name)

\* an input whose ranks run against its order, rendered to the end
C9_Witness ==
    /\ pc = "done"
    /\ Len(lines) = 2
    /\ teams[1].rank = 2 /\ teams[2].rank = 1
    /\ legend = << "2. Houston", "1. Duke" >>

-----------------------------------------------------------------------------
(* C10 *)

FiniteLines == { k \in 1..Len(lines) : lines[k].ymax # NaN }

\* the tallest rendered value of all curves, and the lowest value the axes
\* hold: the curves' own, and 0 where a curve is shaded down to the baseline
Tallest == CHOOSE m \in { lines[k].ymax : k \in FiniteLines } :
               \A k \in FiniteLines : lines[k].ymax <= m

Lowest ==
    LET vals == { lines[k].ymin : k \in FiniteLines }
                \cup { 0 : k \in { f \in 1..Len(fills) : fills[f].ymax # NaN } }
    IN  CHOOSE m \in vals : \A v \in vals : m <= v

HasPeak == FiniteLines # {} /\ Tallest > Lowest

\* C10 as stated: once the limits are set the y axis runs from 0 to exactly
\* 1.05 x the tallest rendered value, and the x axis is [1200, 2600].
\* (ylim[2] is in units of 1/4000 of a curve unit.)
C10_TopIs105PercentOfPeak ==
    (Decorated /\ HasPeak) =>
        /\ xlim = <<XLo, XHi>>
        /\ ylim[1] = 0
        /\ ylim[2] = 4200 * Tallest

\* C10, amended: the upper bound is 1.05 x the upper limit autoscaling had
\* given the axes, which already holds the 5% data margin: with the data
\* spanning [lowest, tallest] it is 1.05 x (tallest + 0.05 x (tallest - lowest)),
\* more than 105% of the tallest peak, so every curve is fully visible.  The
\* lower bound is 0 and the x axis is [1200, 2600].
C10_TopIs105PercentOfAutoscaled ==
    /\ Decorated =>
          /\ xlim = <<XLo, XHi>>
          /\ ylim[1] = 0
    /\ (Decorated /\ HasPeak) =>
          /\ ylim[2] = 21 * (200 * Tallest + 10 * (Tallest - Lowest))
          /\ ylim[2] > 4200 * Tallest
          /\ \A k \in FiniteLines :
                lines[k].ymin >= 0 /\ 4000 * lines[k].ymax < ylim[2]

\* two curves of different height, the first one shaded
C10_Witness ==
    /\ pc = "done"
    /\ Cardinality(FiniteLines) = 2
    /\ HasPeak
    /\ Lowest = 0
    /\ ylim[2] = 4410 * Tallest

=============================================================================
